---- MODULE Spec2Model ----
(***************************************************************************)
(* A model of torcheval's streaming-metric accumulation protocol:          *)
(*   - the functional recall pipeline of                                   *)
(*     torcheval/metrics/functional/classification/recall.py               *)
(*     (parameter check, input check, confusion counts, compute), and      *)
(*   - the Accuracy class of torcheval/metrics/classification/accuracy.py  *)
(*     (construction, update, compute, merge_state).                       *)
(*                                                                         *)
(* Tensors are records [shape, data]: shape is the tuple of dimension      *)
(* sizes, data the flattened elements (a 0-dim tensor holds one element).  *)
(* Floating-point values are exact non-negative rationals [n, d] in lowest *)
(* terms with the two IEEE specials 0/0 = NaN and x/0 = +Inf; float32      *)
(* rounding is not modelled (counts within the bounds are far below 2^24). *)
(***************************************************************************)
EXTENDS Integers, Sequences, FiniteSets, TLC

\* ------------------------------------------------------------------ bounds

\* Largest first dimension (number of samples) of a tensor passed to a call.
MaxLen == 2

\* Largest number of batches the Accuracy instances account for together,
\* through their own update calls and through merge_state.
MaxUpdates == 5

\* -------------------------------------------------------------- input sets

\* Python's None for Optional[int] is the empty tuple, an int n is <<n>>.
None == <<>>

Some(n) == <<n>>

\* Class labels that occur in input and target tensors.
Labels == {0, 1, 2}

\* Values of the `average` argument; "None" stands for Python's None and
\* "gaussian" for any string outside the allowed options.
Averages == {"micro", "macro", "weighted", "None", "gaussian"}

\* Values of the `num_classes` argument.
NumClassesArgs == {None, Some(-1), Some(0), Some(1), Some(2), Some(3)}

\* All tuples over S of length at most n.
RECURSIVE SeqsUpTo(_, _)
SeqsUpTo(S, n) ==
    IF n = 0 THEN {<<>>}
    ELSE LET shorter == SeqsUpTo(S, n - 1)
         IN shorter \cup {Append(s, x) : s \in {t \in shorter : Len(t) = n - 1}, x \in S}

\* Concatenation of a tuple of tuples.
RECURSIVE Flatten(_)
Flatten(rows) == IF rows = <<>> THEN <<>> ELSE Head(rows) \o Flatten(Tail(rows))

\* 1-D tensors of labels, of 0 to MaxLen samples.
LabelTensors == {[shape |-> <<Len(s)>>, data |-> s] : s \in SeqsUpTo(Labels, MaxLen)}

\* Score rows of width w: one class scored 1 and the rest 0, or all 0 (a tie).
ScoreRows(w) ==
    {[j \in 1..w |-> IF j = k THEN 1 ELSE 0] : k \in 0..w}

\* 2-D tensors of scores, of 1 to MaxLen samples: every choice of rows for
\* two classes, and the all-zero tensor for three classes.
ScoreTensors ==
    {[shape |-> <<Len(rows), 2>>, data |-> Flatten(rows)] :
        rows \in SeqsUpTo(ScoreRows(2), MaxLen) \ {<<>>}}
    \cup {[shape |-> <<n, 3>>, data |-> [i \in 1..(3 * n) |-> 0]] : n \in 1..MaxLen}

\* Tensors that fail every shape check whatever they hold: a 3-D input,
\* a 2-D target; they are filled with zeros.
ZeroTensor(shape, numel) == [shape |-> shape, data |-> [i \in 1..numel |-> 0]]

InputTensors ==
    LabelTensors \cup ScoreTensors
        \cup {ZeroTensor(<<n, 2, 2>>, 4 * n) : n \in 1..MaxLen}

TargetTensors ==
    LabelTensors \cup {ZeroTensor(<<n, 2>>, 2 * n) : n \in 1..MaxLen}

\* --------------------------------------------------------------- rationals

RECURSIVE GCD(_, _)
GCD(a, b) == IF b = 0 THEN a ELSE GCD(b, a % b)

NaN == [n |-> 0, d |-> 0]

Inf == [n |-> 1, d |-> 0]

\* The float n / d for integers n >= 0, d >= 0 (IEEE: 0/0 is NaN, n/0 is +Inf).
Ratio(n, d) ==
    IF d = 0 THEN (IF n = 0 THEN NaN ELSE Inf)
    ELSE LET g == GCD(n, d) IN [n |-> n \div g, d |-> d \div g]

FromInt(n) == Ratio(n, 1)

IsNaN(x) == x = NaN

FAdd(x, y) ==
    IF IsNaN(x) \/ IsNaN(y) THEN NaN
    ELSE IF x = Inf \/ y = Inf THEN Inf
    ELSE Ratio(x.n * y.d + y.n * x.d, x.d * y.d)

FMul(x, y) ==
    IF IsNaN(x) \/ IsNaN(y) THEN NaN
    ELSE IF x = Inf \/ y = Inf
         THEN (IF x.n = 0 \/ y.n = 0 THEN NaN ELSE Inf)
    ELSE Ratio(x.n * y.n, x.d * y.d)

FDiv(x, y) ==
    IF IsNaN(x) \/ IsNaN(y) THEN NaN
    ELSE IF y = Inf THEN (IF x = Inf THEN NaN ELSE FromInt(0))
    ELSE IF x = Inf THEN Inf
    ELSE Ratio(x.n * y.d, x.d * y.n)

\* ----------------------------------------------------------------- tensors

Scalar(v) == [shape |-> <<>>, data |-> <<v>>]

Vector(s) == [shape |-> <<Len(s)>>, data |-> s]

Ndim(t) == Len(t.shape)

Numel(t) == Len(t.data)

RECURSIVE SumInt(_)
SumInt(s) == IF s = <<>> THEN 0 ELSE Head(s) + SumInt(Tail(s))

RECURSIVE SumF(_)
SumF(s) == IF s = <<>> THEN FromInt(0) ELSE FAdd(Head(s), SumF(Tail(s)))

\* The elements of s at the positions where keep is TRUE, in order (t[mask]).
RECURSIVE Select(_, _)
Select(s, keep) ==
    IF s = <<>> THEN <<>>
    ELSE (IF Head(keep) THEN <<Head(s)>> ELSE <<>>) \o Select(Tail(s), Tail(keep))

\* Broadcasting of two shapes of at most one dimension: equal sizes, or one
\* of them 1 (or 0-dim); anything else is torch's RuntimeError.
Broadcastable(sa, sb) ==
    \/ sa = <<>> \/ sb = <<>>
    \/ sa = sb
    \/ sa = <<1>> \/ sb = <<1>>

BroadcastShape(sa, sb) ==
    IF sa = <<>> THEN sb
    ELSE IF sb = <<>> THEN sa
    ELSE IF sa = <<1>> THEN sb
    ELSE sa

\* Element i of t seen through broadcasting: a one-element tensor repeats.
At(t, i) == IF Numel(t) = 1 THEN t.data[1] ELSE t.data[i]

\* The number of elements of the broadcast of two tensors (ranks 0 and 1).
BroadcastNumel(a, b) ==
    IF BroadcastShape(a.shape, b.shape) = <<>> THEN 1
    ELSE BroadcastShape(a.shape, b.shape)[1]

\* a + b, a / b and a * b, elementwise over two broadcastable tensors: counts
\* added, counts divided into a float, floats multiplied.
TAdd(a, b) ==
    [shape |-> BroadcastShape(a.shape, b.shape),
     data |-> [i \in 1..BroadcastNumel(a, b) |-> At(a, i) + At(b, i)]]

TDiv(a, b) ==
    [shape |-> BroadcastShape(a.shape, b.shape),
     data |-> [i \in 1..BroadcastNumel(a, b) |-> Ratio(At(a, i), At(b, i))]]

TMul(a, b) ==
    [shape |-> BroadcastShape(a.shape, b.shape),
     data |-> [i \in 1..BroadcastNumel(a, b) |-> FMul(At(a, i), At(b, i))]]

\* tensor.sum() and tensor.mean() of a float tensor (mean of no element is NaN).
TSum(t) == SumF(t.data)

TMean(t) == FDiv(SumF(t.data), FromInt(Numel(t)))

\* A nan_to_num that converts nothing.
NanToNum_Keep(t) == t

\* torch.nan_to_num: NaN becomes 0.  (+Inf would become the largest float; a
\* recall tensor never holds NaN and +Inf together, see _recall_compute.)
NanToNum(t) ==
    [shape |-> t.shape, data |-> [i \in 1..Len(t.data) |->
                                   IF IsNaN(t.data[i]) THEN FromInt(0) ELSE t.data[i]]]

\* torch.argmax over one row: the first index (0-based) of the largest score.
ArgMax(row) ==
    CHOOSE k \in 0..(Len(row) - 1) :
        /\ \A j \in 1..Len(row) : row[j] <= row[k + 1]
        /\ \A j \in 1..k : row[j] < row[k + 1]

SeqMin(s) == CHOOSE v \in {s[i] : i \in 1..Len(s)} : \A i \in 1..Len(s) : v <= s[i]

SeqMax(s) == CHOOSE v \in {s[i] : i \in 1..Len(s)} : \A i \in 1..Len(s) : v >= s[i]

\* torch.histc(xs, bins, min, max) for integer-valued xs: elements outside
\* [min, max] are ignored; when min = max the extrema of the data are used,
\* and when these are equal too the range is widened by one on each side.
Histc(xs, bins, min, max) ==
    LET useData == min = max /\ xs # <<>>
        lo0 == IF useData THEN SeqMin(xs) ELSE min
        hi0 == IF useData THEN SeqMax(xs) ELSE max
        lo  == IF lo0 = hi0 THEN lo0 - 1 ELSE lo0
        hi  == IF lo0 = hi0 THEN hi0 + 1 ELSE hi0
        BinOf(x) == IF x = hi THEN bins - 1 ELSE ((x - lo) * bins) \div (hi - lo)
    IN [b \in 1..bins |->
           Cardinality({i \in 1..Len(xs) :
                           xs[i] >= lo /\ xs[i] <= hi /\ BinOf(xs[i]) = b - 1})]

\* Row r (1-based) of a 2-D tensor, whose data is stored row-major.
Row(t, r) == SubSeq(t.data, (r - 1) * t.shape[2] + 1, r * t.shape[2])

\* torch.argmax(input, dim=1) of a 2-D tensor: a 1-D tensor of labels.
ArgMaxRows(t) == Vector([r \in 1..t.shape[1] |-> ArgMax(Row(t, r))])

\* --------------------------------------------- functional recall (recall.py)

\* A parameter check that accepts any average.
_recall_param_check_AnyAverage(num_classes, average) ==
    IF average # "micro" /\ (num_classes = None \/ num_classes[1] <= 0)
    THEN "ValueError:num_classes"
    ELSE "ok"

\* _recall_param_check: "ok", or the ValueError it raises.
_recall_param_check(num_classes, average) ==
    IF average \notin {"micro", "macro", "weighted", "None"}
    THEN "ValueError:average"
    ELSE IF average # "micro" /\ (num_classes = None \/ num_classes[1] <= 0)
    THEN "ValueError:num_classes"
    ELSE "ok"

\* An input check that looks at the rank of target first.
_recall_update_input_check_TargetFirst(input, target, num_classes) ==
    IF Ndim(target) # 1
    THEN "ValueError:target_ndim"
    ELSE IF input.shape[1] # target.shape[1]
    THEN "ValueError:first_dimension"
    ELSE IF Ndim(input) # 1
            /\ ~(Ndim(input) = 2
                 /\ (num_classes = None \/ input.shape[2] = num_classes[1]))
    THEN "ValueError:input_shape"
    ELSE "ok"

\* _recall_update_input_check: "ok", or the ValueError it raises.  Tensors
\* here have at least one dimension (size(0) exists).
_recall_update_input_check(input, target, num_classes) ==
    IF input.shape[1] # target.shape[1]
    THEN "ValueError:first_dimension"
    ELSE IF Ndim(target) # 1
    THEN "ValueError:target_ndim"
    ELSE IF Ndim(input) # 1
            /\ ~(Ndim(input) = 2
                 /\ (num_classes = None \/ input.shape[2] = num_classes[1]))
    THEN "ValueError:input_shape"
    ELSE "ok"

ShapeErrors ==
    {"ValueError:first_dimension", "ValueError:target_ndim", "ValueError:input_shape"}

NoCounts == [num_tp |-> Vector(<<>>), num_labels |-> Vector(<<>>),
             num_predictions |-> Vector(<<>>)]

\* _recall_update: the counts of one batch, or the error raised.
_recall_update(input, target, num_classes, average) ==
    LET chk    == _recall_update_input_check(input, target, num_classes)
        labels == IF Ndim(input) = 2 THEN ArgMaxRows(input) ELSE input
        n      == Numel(target)
        hit    == {i \in 1..n : labels.data[i] = target.data[i]}
        same   == [i \in 1..n |-> i \in hit]
        bins   == num_classes[1]
    IN IF chk # "ok" THEN [err |-> chk] @@ NoCounts
       ELSE IF average = "micro"
       THEN [err |-> "ok",
             num_tp |-> Scalar(Cardinality(hit)),
             num_labels |-> Scalar(n),
             num_predictions |-> Scalar(n)]
       ELSE IF num_classes = None
       THEN [err |-> "AssertionError"] @@ NoCounts
       ELSE [err |-> "ok",
             num_tp |-> Vector(Histc(Select(labels.data, same), bins, 0, bins - 1)),
             num_labels |-> Vector(Histc(target.data, bins, 0, bins - 1)),
             num_predictions |-> Vector(Histc(labels.data, bins, 0, bins - 1))]

\* _recall_compute: the recall tensor, or the RuntimeError of an elementwise
\* operation on tensors whose shapes do not broadcast.
_recall_compute(num_tp, num_labels, num_predictions, average) ==
    LET masked == average \in {"macro", "weighted"}
        mask   == [c \in 1..Numel(num_labels) |->
                      num_labels.data[c] # 0 \/ num_predictions.data[c] # 0]
        tp     == IF masked THEN Vector(Select(num_tp.data, mask)) ELSE num_tp
        ok1    == Broadcastable(tp.shape, num_labels.shape)
        raw    == TDiv(tp, num_labels)
        recall == IF \E i \in 1..Numel(raw) : IsNaN(raw.data[i])
                  THEN NanToNum(raw) ELSE raw
        total  == Scalar(SumInt(num_labels.data))
        weights == TDiv(Vector(Select(num_labels.data, mask)), total)
        ok2    == Broadcastable(recall.shape, weights.shape)
    IN IF ~ok1 THEN [err |-> "RuntimeError", val |-> Scalar(NaN)]
       ELSE IF average = "micro" THEN [err |-> "ok", val |-> recall]
       ELSE IF average = "macro" THEN [err |-> "ok", val |-> Scalar(TMean(recall))]
       ELSE IF average = "weighted"
       THEN (IF ~ok2 THEN [err |-> "RuntimeError", val |-> Scalar(NaN)]
             ELSE [err |-> "ok",
                   val |-> Scalar(TSum(TMul(recall, weights)))])
       ELSE [err |-> "ok", val |-> recall]

\* ------------------------------------------ Accuracy (classification/accuracy.py)

\* _accuracy_param_check (functional/classification/accuracy.py): "ok", or
\* the ValueError it raises.  Accuracy knows the modes micro, macro and None.
_accuracy_param_check(average, num_classes) ==
    IF average \notin {"micro", "macro", "None"}
    THEN "ValueError:average"
    ELSE IF average # "micro" /\ (num_classes = None \/ num_classes[1] <= 0)
    THEN "ValueError:num_classes"
    ELSE "ok"

\* _accuracy_update_input_check: "ok", or the ValueError it raises.
_accuracy_update_input_check(input, target, num_classes) ==
    IF input.shape[1] # target.shape[1]
    THEN "ValueError:first_dimension"
    ELSE IF Ndim(target) # 1
    THEN "ValueError:target_ndim"
    ELSE IF Ndim(input) # 1
            /\ ~(Ndim(input) = 2
                 /\ (num_classes = None \/ input.shape[2] = num_classes[1]))
    THEN "ValueError:input_shape"
    ELSE "ok"

\* A metric attribute that no _add_state call has registered.
Absent == [shape |-> <<>>, data |-> <<>>]

NoState == [num_correct |-> Absent, num_total |-> Absent]

\* _accuracy_update: the (num_correct, num_total) of one batch, or the error
\* raised.  Targets lie in [0, num_classes) in the per-class modes.
_accuracy_update(input, target, average, num_classes) ==
    LET chk    == _accuracy_update_input_check(input, target, num_classes)
        labels == IF Ndim(input) = 2 THEN ArgMaxRows(input) ELSE input
        n      == Numel(target)
        hit    == {i \in 1..n : labels.data[i] = target.data[i]}
    IN IF chk # "ok" THEN [err |-> chk] @@ NoState
       ELSE IF average = "micro"
       THEN [err |-> "ok",
             num_correct |-> Scalar(Cardinality(hit)),
             num_total |-> Scalar(n)]
       ELSE [err |-> "ok",
             num_correct |-> Vector([c \in 1..num_classes[1] |->
                 Cardinality({i \in hit : target.data[i] = c - 1})]),
             num_total |-> Vector([c \in 1..num_classes[1] |->
                 Cardinality({i \in 1..n : target.data[i] = c - 1})])]

\* _accuracy_compute: micro and None divide elementwise; macro averages the
\* ratios of the classes that have a sample.
_accuracy_compute(num_correct, num_total, average) ==
    IF average = "macro"
    THEN LET mask == [c \in 1..Numel(num_total) |-> num_total.data[c] # 0]
         IN Scalar(TMean(TDiv(Vector(Select(num_correct.data, mask)),
                                      Vector(Select(num_total.data, mask)))))
    ELSE TDiv(num_correct, num_total)

\* Accuracy.__init__: the parameter check, then the zero state of the mode.
Accuracy_init(average, num_classes) ==
    LET chk == _accuracy_param_check(average, num_classes)
        n   == IF num_classes = None THEN 0 ELSE num_classes[1]
    IN IF chk # "ok" THEN [err |-> chk] @@ NoState
       ELSE IF average = "micro"
       THEN [err |-> "ok", num_correct |-> Scalar(0), num_total |-> Scalar(0)]
       ELSE [err |-> "ok",
             num_correct |-> Vector([c \in 1..n |-> 0]),
             num_total |-> Vector([c \in 1..n |-> 0])]

\* One instance per worker; every worker constructs the same metric.
Inst == {"w1", "w2", "w3"}

\* The batches the workers draw from: two examples of the class docstring
\* (labels; scores, times ten) and a batch that violates the shape rules.
AccBatches == <<
    [input |-> Vector(<<0, 0, 1, 1, 1>>), target |-> Vector(<<0, 0, 0, 0, 1>>)],
    [input |-> [shape |-> <<4, 4>>,
                data |-> <<9, 1, 0, 0,  1, 2, 4, 3,  0, 10, 0, 0,  0, 0, 2, 8>>],
     target |-> Vector(<<0, 1, 2, 3>>)],
    [input |-> Vector(<<0, 1, 2, 3>>), target |-> Vector(<<0, 1, 2>>)] >>

\* The configurations a construction is tried with.
AccConfigs ==
    {[average |-> "micro", num_classes |-> None],
     [average |-> "macro", num_classes |-> Some(4)],
     [average |-> "None", num_classes |-> Some(4)],
     [average |-> "macro", num_classes |-> None],
     [average |-> "None", num_classes |-> Some(0)],
     [average |-> "gaussian", num_classes |-> Some(4)]}

\* The counts of the workers' batches under the configurations that pass the
\* parameter check, computed once.
KnownCalls ==
    {<<AccBatches[b].input, AccBatches[b].target, cfg.average, cfg.num_classes>> :
        b \in 1..Len(AccBatches),
        cfg \in {c \in AccConfigs : _accuracy_param_check(c.average, c.num_classes) = "ok"}}

KnownCounts == [k \in KnownCalls |-> _accuracy_update(k[1], k[2], k[3], k[4])]

\* _accuracy_update, looked up where it is known.
_accuracy_update_once(input, target, average, num_classes) ==
    IF <<input, target, average, num_classes>> \in KnownCalls
    THEN KnownCounts[<<input, target, average, num_classes>>]
    ELSE _accuracy_update(input, target, average, num_classes)

\* An update that replaces the counts by those of the batch.
Accuracy_update_Overwrite(self, input, target, average, num_classes) ==
    LET r == _accuracy_update_once(input, target, average, num_classes)
    IN IF r.err # "ok"
       THEN [err |-> r.err, num_correct |-> self.num_correct, num_total |-> self.num_total]
       ELSE [err |-> "ok", num_correct |-> r.num_correct, num_total |-> r.num_total]

\* An update that does not add to num_total.
Accuracy_update_DropTotal(self, input, target, average, num_classes) ==
    LET r == _accuracy_update_once(input, target, average, num_classes)
    IN IF r.err # "ok"
       THEN [err |-> r.err, num_correct |-> self.num_correct, num_total |-> self.num_total]
       ELSE [err |-> "ok",
             num_correct |-> TAdd(self.num_correct, r.num_correct),
             num_total |-> self.num_total]

\* An update that zeroes the counts when the batch is rejected.
Accuracy_update_ClearOnError(self, input, target, average, num_classes) ==
    LET r == _accuracy_update_once(input, target, average, num_classes)
    IN IF r.err # "ok"
       THEN [err |-> r.err,
             num_correct |-> ZeroTensor(self.num_correct.shape, Numel(self.num_correct)),
             num_total |-> ZeroTensor(self.num_total.shape, Numel(self.num_total))]
       ELSE [err |-> "ok",
             num_correct |-> TAdd(self.num_correct, r.num_correct),
             num_total |-> TAdd(self.num_total, r.num_total)]

\* Accuracy.update on the state `self`: the state after the call and the
\* error raised ("ok" if none).
Accuracy_update(self, input, target, average, num_classes) ==
    LET r == _accuracy_update_once(input, target, average, num_classes)
    IN IF r.err # "ok"
       THEN [err |-> r.err, num_correct |-> self.num_correct, num_total |-> self.num_total]
       ELSE [err |-> "ok",
             num_correct |-> TAdd(self.num_correct, r.num_correct),
             num_total |-> TAdd(self.num_total, r.num_total)]

\* Accuracy.compute on the state `self`.
Accuracy_compute(self, average) ==
    _accuracy_compute(self.num_correct, self.num_total, average)

\* A merge_state that stops after the first element of `metrics`.
Accuracy_merge_state_FirstOnly(self, metrics) ==
    IF metrics = <<>> THEN self
    ELSE [num_correct |-> TAdd(self.num_correct, Head(metrics).num_correct),
          num_total |-> TAdd(self.num_total, Head(metrics).num_total)]

\* A merge_state that adds num_correct only.
RECURSIVE Accuracy_merge_state_NoTotal(_, _)
Accuracy_merge_state_NoTotal(self, metrics) ==
    IF metrics = <<>> THEN self
    ELSE Accuracy_merge_state_NoTotal(
             [num_correct |-> TAdd(self.num_correct, Head(metrics).num_correct),
              num_total |-> self.num_total],
             Tail(metrics))

\* A merge_state that adds the num_total of the others to num_correct and
\* their num_correct to num_total.
RECURSIVE Accuracy_merge_state_Swapped(_, _)
Accuracy_merge_state_Swapped(self, metrics) ==
    IF metrics = <<>> THEN self
    ELSE Accuracy_merge_state_Swapped(
             [num_correct |-> TAdd(self.num_correct, Head(metrics).num_total),
              num_total |-> TAdd(self.num_total, Head(metrics).num_correct)],
             Tail(metrics))

\* Accuracy.merge_state: `metrics` is the tuple of the states of the other
\* instances, folded into `self` in iteration order.
RECURSIVE Accuracy_merge_state(_, _)
Accuracy_merge_state(self, metrics) ==
    IF metrics = <<>> THEN self
    ELSE Accuracy_merge_state(
             [num_correct |-> TAdd(self.num_correct, Head(metrics).num_correct),
              num_total |-> TAdd(self.num_total, Head(metrics).num_total)],
             Tail(metrics))

\* ------------------------------------------------------------------- state

VARIABLES
    rc_pc,      \* position inside multiclass_recall: "idle", "param_check",
                \* "update", "compute", "returned", "raised"
    rc_args,    \* the arguments of the call in progress
    rc_counts,  \* num_tp, num_labels, num_predictions once _recall_update returned
    rc_out,     \* [err, val]: the exception raised ("ok" if none) and the result
    rc_prev     \* whether the previous call ended in a shape-violation ValueError

rc_vars == <<rc_pc, rc_args, rc_counts, rc_out, rc_prev>>

VARIABLES
    acc_ctor,   \* "new", "ok" once the instances are constructed, "raised" when
                \* the last construction raised
    acc_cfg,    \* self.average and self.num_classes, the same in every instance
    acc_state,  \* per instance: the state tensors num_correct and num_total
    acc_log,    \* per instance: the batches its state accounts for, by index in
                \* AccBatches, sorted (history, not program state)
    acc_fed,    \* number of update calls that returned, over all instances
                \* (history)
    acc_last    \* the last call: op, inst, batch (update's argument, by index
                \* in AccBatches), others (merge_state's argument), err, val
                \* (compute's result), again (compute right after a compute of
                \* the same instance)

acc_vars == <<acc_ctor, acc_cfg, acc_state, acc_log, acc_fed, acc_last>>

VARIABLES
    au_state,   \* per AUROC instance: the buffers inputs and targets, each the
                \* list of the tensors appended so far
    au_log,     \* per AUROC instance: the batches its buffers account for, by
                \* index in AurocBatches, sorted (history)
    au_last     \* the last call: op, inst, batch, others, err, val

au_vars == <<au_state, au_log, au_last>>

VARIABLES
    ml_ctor,    \* "new", "ok" once the MultiLabelAccuracy instance is
                \* constructed, "raised" when the last construction raised
    ml_cfg,     \* self.threshold (in tenths) and self.criteria
    ml_state,   \* the state tensors num_correct and num_total
    ml_log,     \* the batches the state accounts for, by index in MlBatches,
                \* sorted (history)
    ml_last     \* the last call: op, batch, err, val

ml_vars == <<ml_ctor, ml_cfg, ml_state, ml_log, ml_last>>

VARIABLES
    rj_ctor,     \* "new", "ok" once the Accuracy instance of the caller is
                 \* constructed, "raised" when the last construction raised
    rj_cfg,      \* self.average and self.num_classes of that instance
    rj_acc,      \* its state tensors num_correct and num_total
    rj_acc_log,  \* the batches its update accepted, by index in AccBatches,
                 \* sorted (history)
    rj_au,       \* the buffers inputs and targets of the caller's AUROC instance
    rj_au_log,   \* the batches its update accepted, by index in AurocBatches,
                 \* in call order (history)
    rj_rejected, \* the number of update calls that raised, per instance (history)
    rj_last      \* the last call: op, batch, err, val

rj_vars == <<rj_ctor, rj_cfg, rj_acc, rj_acc_log, rj_au, rj_au_log, rj_rejected, rj_last>>

NoArgs == [input |-> Vector(<<>>), target |-> Vector(<<>>),
           num_classes |-> None, average |-> "micro"]

NoOut == [err |-> "ok", val |-> Scalar(NaN)]

RecallInit ==
    /\ rc_pc = "idle"
    /\ rc_args = NoArgs
    /\ rc_counts = NoCounts
    /\ rc_out = NoOut
    /\ rc_prev = FALSE

\* A caller invokes multiclass_recall(input, target, num_classes, average).
RecallCall ==
    /\ rc_pc = "idle"
    /\ \E input \in InputTensors, target \in TargetTensors,
          num_classes \in NumClassesArgs, average \in Averages :
            rc_args' = [input |-> input, target |-> target,
                        num_classes |-> num_classes, average |-> average]
    /\ rc_pc' = "param_check"
    /\ UNCHANGED <<rc_counts, rc_out, rc_prev, acc_vars, au_vars, ml_vars, rj_vars>>

\* multiclass_recall, first statement: _recall_param_check(num_classes, average).
RecallParamCheck ==
    /\ rc_pc = "param_check"
    /\ \E r \in {_recall_param_check(rc_args.num_classes, rc_args.average)} :
          /\ rc_out' = [rc_out EXCEPT !.err = r]
          /\ rc_pc' = IF r = "ok" THEN "update" ELSE "raised"
    /\ UNCHANGED <<rc_args, rc_counts, rc_prev, acc_vars, au_vars, ml_vars, rj_vars>>

\* multiclass_recall, second statement: _recall_update(...).
RecallUpdate ==
    /\ rc_pc = "update"
    /\ \E r \in {_recall_update(rc_args.input, rc_args.target,
                                  rc_args.num_classes, rc_args.average)} :
          /\ rc_out' = [rc_out EXCEPT !.err = r.err]
          /\ rc_counts' = [num_tp |-> r.num_tp, num_labels |-> r.num_labels,
                           num_predictions |-> r.num_predictions]
          /\ rc_pc' = IF r.err = "ok" THEN "compute" ELSE "raised"
    /\ UNCHANGED <<rc_args, rc_prev, acc_vars, au_vars, ml_vars, rj_vars>>

\* multiclass_recall, last statement: return _recall_compute(...).
RecallCompute ==
    /\ rc_pc = "compute"
    /\ \E r \in {_recall_compute(rc_counts.num_tp, rc_counts.num_labels,
                                   rc_counts.num_predictions, rc_args.average)} :
          /\ rc_out' = r
          /\ rc_pc' = IF r.err = "ok" THEN "returned" ELSE "raised"
    /\ UNCHANGED <<rc_args, rc_counts, rc_prev, acc_vars, au_vars, ml_vars, rj_vars>>

\* multiclass_recall is left, by return or by exception: its locals are gone.
RecallExit ==
    /\ rc_pc \in {"returned", "raised"}
    /\ rc_prev' = (rc_out.err \in ShapeErrors)
    /\ rc_args' = NoArgs
    /\ rc_counts' = NoCounts
    /\ rc_out' = NoOut
    /\ rc_pc' = "idle"
    /\ UNCHANGED <<acc_vars, au_vars, ml_vars, rj_vars>>

\* ---------------------------------------------------- the Accuracy instances

NoLast == [op |-> "none", inst |-> "-", batch |-> 0, others |-> <<>>, err |-> "ok",
           val |-> Scalar(NaN), again |-> FALSE]

\* s with x inserted, s sorted.
RECURSIVE Insert(_, _)
Insert(s, x) ==
    IF s = <<>> THEN <<x>>
    ELSE IF x <= Head(s) THEN <<x>> \o s
    ELSE <<Head(s)>> \o Insert(Tail(s), x)

RECURSIVE InsertAll(_, _)
InsertAll(s, xs) == IF xs = <<>> THEN s ELSE InsertAll(Insert(s, Head(xs)), Tail(xs))

\* The number of batches the instances account for together.
Accounted(log) == Len(log["w1"]) + Len(log["w2"]) + Len(log["w3"])

AccInit ==
    /\ acc_ctor = "new"
    /\ acc_cfg = [average |-> "micro", num_classes |-> None]
    /\ acc_state = [i \in Inst |-> NoState]
    /\ acc_log = [i \in Inst |-> <<>>]
    /\ acc_fed = 0
    /\ acc_last = NoLast

\* Every worker runs Accuracy(average, num_classes).
Construct ==
    /\ acc_ctor # "ok"
    /\ \E cfg \in AccConfigs : \E r \in {Accuracy_init(cfg.average, cfg.num_classes)} :
             /\ acc_ctor' = IF r.err = "ok" THEN "ok" ELSE "raised"
             /\ acc_cfg' = IF r.err = "ok" THEN cfg ELSE acc_cfg
             /\ acc_state' = [i \in Inst |->
                                 [num_correct |-> r.num_correct, num_total |-> r.num_total]]
             /\ acc_last' = [NoLast EXCEPT !.op = "init", !.err = r.err]
    /\ UNCHANGED <<acc_log, acc_fed, rc_vars, au_vars, ml_vars, rj_vars>>

\* Instance i runs update(input, target) with batch b of AccBatches.
Update(i, b) ==
    /\ acc_ctor = "ok"
    /\ Accounted(acc_log) < MaxUpdates
    /\ \E r \in {Accuracy_update(acc_state[i], AccBatches[b].input, AccBatches[b].target,
                                acc_cfg.average, acc_cfg.num_classes)} :
          /\ acc_state' = [acc_state EXCEPT
                              ![i] = [num_correct |-> r.num_correct, num_total |-> r.num_total]]
          /\ acc_log' = IF r.err = "ok"
                        THEN [acc_log EXCEPT ![i] = Insert(@, b)]
                        ELSE acc_log
          /\ acc_fed' = IF r.err = "ok" THEN acc_fed + 1 ELSE acc_fed
          /\ acc_last' = [NoLast EXCEPT !.op = "update", !.inst = i, !.batch = b,
                                         !.err = r.err]
    /\ UNCHANGED <<acc_ctor, acc_cfg, rc_vars, au_vars, ml_vars, rj_vars>>

\* A compute that zeroes the counts of the instance.
Compute_Reset(i) ==
    /\ acc_ctor = "ok"
    /\ acc_last' = [NoLast EXCEPT
                       !.op = "compute", !.inst = i,
                       !.val = Accuracy_compute(acc_state[i], acc_cfg.average),
                       !.again = (acc_last.op = "compute" /\ acc_last.inst = i)]
    /\ acc_state' = [acc_state EXCEPT
                        ![i] = [num_correct |-> ZeroTensor(@.num_correct.shape,
                                                           Numel(@.num_correct)),
                                num_total |-> ZeroTensor(@.num_total.shape,
                                                         Numel(@.num_total))]]
    /\ UNCHANGED <<acc_ctor, acc_cfg, acc_log, acc_fed, rc_vars, au_vars, ml_vars, rj_vars>>

\* Instance i runs compute().
Compute(i) ==
    /\ acc_ctor = "ok"
    /\ acc_last' = [NoLast EXCEPT
                       !.op = "compute", !.inst = i,
                       !.val = Accuracy_compute(acc_state[i], acc_cfg.average),
                       !.again = (acc_last.op = "compute" /\ acc_last.inst = i)]
    /\ UNCHANGED <<acc_ctor, acc_cfg, acc_state, acc_log, acc_fed, rc_vars, au_vars, ml_vars, rj_vars>>

\* The tuples of distinct elements of S.
RECURSIVE Arrangements(_)
Arrangements(S) ==
    {<<>>} \cup UNION {{<<x>> \o t : t \in Arrangements(S \ {x})} : x \in S}

\* What merge_state may be called with by instance i: its siblings, in any
\* iteration order.
Siblings == [i \in Inst |-> Arrangements(Inst \ {i})]

RECURSIVE LogOf(_, _)
LogOf(log, others) ==
    IF others = <<>> THEN <<>> ELSE log[Head(others)] \o LogOf(log, Tail(others))

\* Instance i runs merge_state(others): others are sibling instances.
MergeState(i, others) ==
    /\ acc_ctor = "ok"
    /\ Accounted(acc_log) + Len(LogOf(acc_log, others)) <= MaxUpdates
    /\ acc_state' = [acc_state EXCEPT
                        ![i] = Accuracy_merge_state(@, [k \in 1..Len(others) |->
                                                           acc_state[others[k]]])]
    /\ acc_log' = [acc_log EXCEPT ![i] = InsertAll(@, LogOf(acc_log, others))]
    /\ acc_last' = [NoLast EXCEPT !.op = "merge_state", !.inst = i, !.others = others]
    /\ UNCHANGED <<acc_ctor, acc_cfg, acc_fed, rc_vars, au_vars, ml_vars, rj_vars>>

\* ------------------------------------------------------- the AUROC instances

AurocInst == {"a1", "a2", "a3"}

\* The batches the AUROC instances draw from: scores and binary labels, the
\* second with equal scores in both classes, and the three rejected shapes
\* of test_auroc_class_invalid_input.
AurocBatches == <<
    [input |-> Vector(<<2, 1>>), target |-> Vector(<<1, 0>>)],
    [input |-> Vector(<<1, 1, 0>>), target |-> Vector(<<1, 0, 1>>)],
    [input |-> ZeroTensor(<<3, 2>>, 6), target |-> Vector(<<0, 0, 0>>)],
    [input |-> Vector(<<0, 0, 0>>), target |-> ZeroTensor(<<3, 2>>, 6)],
    [input |-> Vector(<<0, 0, 0, 0>>), target |-> Vector(<<0, 0, 0>>)] >>

\* The input check of AUROC.update: "ok", or the ValueError it raises.
_auroc_update_input_check(input, target) ==
    IF Ndim(input) # 1 THEN "ValueError:input_ndim"
    ELSE IF Ndim(target) # 1 THEN "ValueError:target_ndim"
    ELSE IF input.shape # target.shape THEN "ValueError:same_shape"
    ELSE "ok"

\* AUROC.__init__: two empty buffers.
AUROC_init == [inputs |-> <<>>, targets |-> <<>>]

\* AUROC.update on the state `self`: the check, then both tensors appended.
AUROC_update(self, input, target) ==
    IF _auroc_update_input_check(input, target) # "ok"
    THEN [err |-> _auroc_update_input_check(input, target),
          inputs |-> self.inputs, targets |-> self.targets]
    ELSE [err |-> "ok",
          inputs |-> Append(self.inputs, input),
          targets |-> Append(self.targets, target)]

\* torch.cat over a list of 1-D tensors.
RECURSIVE Cat(_)
Cat(tensors) ==
    IF tensors = <<>> THEN Vector(<<>>)
    ELSE Vector(Head(tensors).data \o Cat(Tail(tensors)).data)

\* The rank-sum AUROC: with every score ranked in the whole sample, equal
\* scores sharing the average of their ranks, (sum of the ranks of the
\* positives - num_pos (num_pos + 1) / 2) / (num_pos * num_neg).  Ranks are
\* kept doubled.
_auroc_compute(input, target) ==
    LET n        == Numel(input)
        pos      == Cardinality({i \in 1..n : target.data[i] = 1})
        rank2(i) == 2 * Cardinality({j \in 1..n : input.data[j] < input.data[i]})
                    + Cardinality({j \in 1..n : input.data[j] = input.data[i]}) + 1
        sum2     == SumInt([i \in 1..n |-> IF target.data[i] = 1 THEN rank2(i) ELSE 0])
    IN Scalar(Ratio(sum2 - pos * (pos + 1), 2 * pos * (n - pos)))

\* AUROC.compute on the state `self`.
AUROC_compute(self) == _auroc_compute(Cat(self.inputs), Cat(self.targets))

\* A merge_state that keeps one sample of each buffered tensor of the others.
RECURSIVE AUROC_merge_state_Reduce(_, _)
AUROC_merge_state_Reduce(self, metrics) ==
    IF metrics = <<>> THEN self
    ELSE AUROC_merge_state_Reduce(
             [inputs |-> self.inputs
                         \o [k \in 1..Len(Head(metrics).inputs) |->
                                Vector(<<Head(metrics).inputs[k].data[1]>>)],
              targets |-> self.targets
                          \o [k \in 1..Len(Head(metrics).targets) |->
                                 Vector(<<Head(metrics).targets[k].data[1]>>)]],
             Tail(metrics))

\* AUROC.merge_state: the buffers of the others are concatenated to self's,
\* in iteration order.
RECURSIVE AUROC_merge_state(_, _)
AUROC_merge_state(self, metrics) ==
    IF metrics = <<>> THEN self
    ELSE AUROC_merge_state(
             [inputs |-> self.inputs \o Head(metrics).inputs,
              targets |-> self.targets \o Head(metrics).targets],
             Tail(metrics))

AurocNoLast == [op |-> "none", inst |-> "-", batch |-> 0, others |-> <<>>,
                err |-> "ok", val |-> Scalar(NaN)]

AurocAccounted(log) == Len(log["a1"]) + Len(log["a2"]) + Len(log["a3"])

AurocInit ==
    /\ au_state = [i \in AurocInst |-> AUROC_init]
    /\ au_log = [i \in AurocInst |-> <<>>]
    /\ au_last = AurocNoLast

\* Instance i runs update(input, target) with batch b of AurocBatches.
AurocUpdate(i, b) ==
    /\ AurocAccounted(au_log) < MaxUpdates
    /\ \E r \in {AUROC_update(au_state[i], AurocBatches[b].input, AurocBatches[b].target)} :
          /\ au_state' = [au_state EXCEPT ![i] = [inputs |-> r.inputs, targets |-> r.targets]]
          /\ au_log' = IF r.err = "ok" THEN [au_log EXCEPT ![i] = Insert(@, b)] ELSE au_log
          /\ au_last' = [AurocNoLast EXCEPT !.op = "update", !.inst = i, !.batch = b,
                                            !.err = r.err]
    /\ UNCHANGED <<rc_vars, acc_vars, ml_vars, rj_vars>>

\* Instance i runs compute().
AurocCompute(i) ==
    /\ au_last' = [AurocNoLast EXCEPT !.op = "compute", !.inst = i,
                                      !.val = AUROC_compute(au_state[i])]
    /\ UNCHANGED <<au_state, au_log, rc_vars, acc_vars, ml_vars, rj_vars>>

\* Instance i runs merge_state(others): others are the other instances, in
\* any iteration order.
AurocMergeState(i, others) ==
    /\ AurocAccounted(au_log) + Len(LogOf(au_log, others)) <= MaxUpdates
    /\ au_state' = [au_state EXCEPT
                       ![i] = AUROC_merge_state(@, [k \in 1..Len(others) |->
                                                      au_state[others[k]]])]
    /\ au_log' = [au_log EXCEPT ![i] = InsertAll(@, LogOf(au_log, others))]
    /\ au_last' = [AurocNoLast EXCEPT !.op = "merge_state", !.inst = i, !.others = others]
    /\ UNCHANGED <<rc_vars, acc_vars, ml_vars, rj_vars>>

\* ------------------------------------------- the MultiLabelAccuracy instance

\* Scores and thresholds are kept in tenths: 5 is 0.5.
MlBatches == <<
    [input |-> [shape |-> <<4, 2>>, data |-> <<0, 10,  10, 10,  0, 0,  0, 10>>],
     target |-> [shape |-> <<4, 2>>, data |-> <<0, 1,  1, 0,  0, 0,  1, 1>>]],
    [input |-> [shape |-> <<2, 2>>, data |-> <<3, 7,  5, 4>>],
     target |-> [shape |-> <<2, 2>>, data |-> <<0, 1,  1, 1>>]],
    [input |-> [shape |-> <<2, 2>>, data |-> <<0, 10,  10, 0>>],
     target |-> [shape |-> <<2, 3>>, data |-> <<0, 1, 0,  1, 0, 0>>]] >>

\* The configurations a construction is tried with.
MlConfigs ==
    {[threshold |-> t, criteria |-> c] :
        t \in {0, 5, 10, 12}, c \in {"exact_match", "hamming", "jaccard"}}

\* _multi_label_accuracy_param_check: "ok", or the ValueError it raises.
_multi_label_accuracy_param_check(threshold, criteria) ==
    IF criteria \notin {"exact_match", "hamming"} THEN "ValueError:criteria"
    ELSE IF threshold < 0 \/ threshold > 10 THEN "ValueError:threshold"
    ELSE "ok"

\* torch.where(input < threshold, 0, 1)
Thresholded(input, threshold) ==
    [shape |-> input.shape,
     data |-> [k \in 1..Len(input.data) |-> IF input.data[k] < threshold THEN 0 ELSE 1]]

\* _multi_label_accuracy_update: the (num_correct, num_total) of one batch,
\* or the error raised.
_multi_label_accuracy_update(input, target, threshold, criteria) ==
    IF input.shape # target.shape
    THEN [err |-> "ValueError:same_shape"] @@ NoState
    ELSE IF criteria = "exact_match"
    THEN [err |-> "ok",
          num_correct |-> Scalar(Cardinality(
              {r \in 1..target.shape[1] :
                  Row(Thresholded(input, threshold), r) = Row(target, r)})),
          num_total |-> Scalar(target.shape[1])]
    ELSE [err |-> "ok",
          num_correct |-> Scalar(Cardinality(
              {k \in 1..Numel(target) :
                  Thresholded(input, threshold).data[k] = target.data[k]})),
          num_total |-> Scalar(Numel(target))]

\* MultiLabelAccuracy.__init__: Accuracy.__init__() registers the state of the
\* mode micro, then the parameter check runs.
MultiLabelAccuracy_init(threshold, criteria) ==
    [err |-> _multi_label_accuracy_param_check(threshold, criteria),
     num_correct |-> Accuracy_init("micro", None).num_correct,
     num_total |-> Accuracy_init("micro", None).num_total]

\* An update that does not add to num_total.
MultiLabelAccuracy_update_DropTotal(self, input, target, threshold, criteria) ==
    LET r == _multi_label_accuracy_update(input, target, threshold, criteria)
    IN IF r.err # "ok"
       THEN [err |-> r.err, num_correct |-> self.num_correct, num_total |-> self.num_total]
       ELSE [err |-> "ok",
             num_correct |-> TAdd(self.num_correct, r.num_correct),
             num_total |-> self.num_total]

\* MultiLabelAccuracy.update on the state `self`.
MultiLabelAccuracy_update(self, input, target, threshold, criteria) ==
    LET r == _multi_label_accuracy_update(input, target, threshold, criteria)
    IN IF r.err # "ok"
       THEN [err |-> r.err, num_correct |-> self.num_correct, num_total |-> self.num_total]
       ELSE [err |-> "ok",
             num_correct |-> TAdd(self.num_correct, r.num_correct),
             num_total |-> TAdd(self.num_total, r.num_total)]

MlNoLast == [op |-> "none", batch |-> 0, err |-> "ok", val |-> Scalar(NaN)]

MlInit ==
    /\ ml_ctor = "new"
    /\ ml_cfg = [threshold |-> 5, criteria |-> "exact_match"]
    /\ ml_state = NoState
    /\ ml_log = <<>>
    /\ ml_last = MlNoLast

\* A worker runs MultiLabelAccuracy(threshold, criteria).
MlConstruct ==
    /\ ml_ctor # "ok"
    /\ \E cfg \in MlConfigs :
          \E r \in {MultiLabelAccuracy_init(cfg.threshold, cfg.criteria)} :
             /\ ml_ctor' = IF r.err = "ok" THEN "ok" ELSE "raised"
             /\ ml_cfg' = IF r.err = "ok" THEN cfg ELSE ml_cfg
             /\ ml_state' = [num_correct |-> r.num_correct, num_total |-> r.num_total]
             /\ ml_last' = [MlNoLast EXCEPT !.op = "init", !.err = r.err]
    /\ UNCHANGED <<ml_log, rc_vars, acc_vars, au_vars, rj_vars>>

\* The instance runs update(input, target) with batch b of MlBatches.
MlUpdate(b) ==
    /\ ml_ctor = "ok"
    /\ Len(ml_log) < MaxUpdates
    /\ \E r \in {MultiLabelAccuracy_update(ml_state, MlBatches[b].input, MlBatches[b].target,
                                          ml_cfg.threshold, ml_cfg.criteria)} :
          /\ ml_state' = [num_correct |-> r.num_correct, num_total |-> r.num_total]
          /\ ml_log' = IF r.err = "ok" THEN Insert(ml_log, b) ELSE ml_log
          /\ ml_last' = [MlNoLast EXCEPT !.op = "update", !.batch = b, !.err = r.err]
    /\ UNCHANGED <<ml_ctor, ml_cfg, rc_vars, acc_vars, au_vars, rj_vars>>

\* The instance runs compute(), inherited from Accuracy with average micro.
MlCompute ==
    /\ ml_ctor = "ok"
    /\ ml_last' = [MlNoLast EXCEPT !.op = "compute",
                                   !.val = Accuracy_compute(ml_state, "micro")]
    /\ UNCHANGED <<ml_ctor, ml_cfg, ml_state, ml_log, rc_vars, acc_vars, au_vars, rj_vars>>

\* ------------------- a caller whose update calls are accepted or rejected

RejNoLast == [op |-> "none", batch |-> 0, err |-> "ok", val |-> Scalar(NaN)]

\* The update calls made so far, accepted or rejected, on both instances.
RejCalls ==
    Len(rj_acc_log) + Len(rj_au_log) + rj_rejected.accuracy + rj_rejected.auroc

RejInit ==
    /\ rj_ctor = "new"
    /\ rj_cfg = [average |-> "micro", num_classes |-> None]
    /\ rj_acc = NoState
    /\ rj_acc_log = <<>>
    /\ rj_au = AUROC_init
    /\ rj_au_log = <<>>
    /\ rj_rejected = [accuracy |-> 0, auroc |-> 0]
    /\ rj_last = RejNoLast

\* The caller runs Accuracy(average, num_classes).
RejConstruct ==
    /\ rj_ctor # "ok"
    /\ \E cfg \in AccConfigs : \E r \in {Accuracy_init(cfg.average, cfg.num_classes)} :
          /\ rj_ctor' = IF r.err = "ok" THEN "ok" ELSE "raised"
          /\ rj_cfg' = IF r.err = "ok" THEN cfg ELSE rj_cfg
          /\ rj_acc' = [num_correct |-> r.num_correct, num_total |-> r.num_total]
          /\ rj_last' = [RejNoLast EXCEPT !.op = "Accuracy.init", !.err = r.err]
    /\ UNCHANGED <<rj_acc_log, rj_au, rj_au_log, rj_rejected,
                   rc_vars, acc_vars, au_vars, ml_vars>>

\* The caller runs update(input, target) of its Accuracy instance with batch
\* b of AccBatches.
RejAccuracyUpdate(b) ==
    /\ rj_ctor = "ok"
    /\ RejCalls < MaxUpdates
    /\ \E r \in {Accuracy_update(rj_acc, AccBatches[b].input, AccBatches[b].target,
                                rj_cfg.average, rj_cfg.num_classes)} :
          /\ rj_acc' = [num_correct |-> r.num_correct, num_total |-> r.num_total]
          /\ rj_acc_log' = IF r.err = "ok" THEN Insert(rj_acc_log, b) ELSE rj_acc_log
          /\ rj_rejected' = IF r.err = "ok" THEN rj_rejected
                            ELSE [rj_rejected EXCEPT !.accuracy = @ + 1]
          /\ rj_last' = [RejNoLast EXCEPT !.op = "Accuracy.update", !.batch = b,
                                          !.err = r.err]
    /\ UNCHANGED <<rj_ctor, rj_cfg, rj_au, rj_au_log, rc_vars, acc_vars, au_vars, ml_vars>>

\* The caller runs compute() of its Accuracy instance.
RejAccuracyCompute ==
    /\ rj_ctor = "ok"
    /\ rj_last' = [RejNoLast EXCEPT !.op = "Accuracy.compute",
                                    !.val = Accuracy_compute(rj_acc, rj_cfg.average)]
    /\ UNCHANGED <<rj_ctor, rj_cfg, rj_acc, rj_acc_log, rj_au, rj_au_log, rj_rejected,
                   rc_vars, acc_vars, au_vars, ml_vars>>

\* The caller runs update(input, target) of its AUROC instance with batch b
\* of AurocBatches.
RejAurocUpdate(b) ==
    /\ RejCalls < MaxUpdates
    /\ \E r \in {AUROC_update(rj_au, AurocBatches[b].input, AurocBatches[b].target)} :
          /\ rj_au' = [inputs |-> r.inputs, targets |-> r.targets]
          /\ rj_au_log' = IF r.err = "ok" THEN Append(rj_au_log, b) ELSE rj_au_log
          /\ rj_rejected' = IF r.err = "ok" THEN rj_rejected
                            ELSE [rj_rejected EXCEPT !.auroc = @ + 1]
          /\ rj_last' = [RejNoLast EXCEPT !.op = "AUROC.update", !.batch = b,
                                          !.err = r.err]
    /\ UNCHANGED <<rj_ctor, rj_cfg, rj_acc, rj_acc_log, rc_vars, acc_vars, au_vars, ml_vars>>

\* The caller runs compute() of its AUROC instance.
RejAurocCompute ==
    /\ rj_au_log # <<>>
    /\ rj_last' = [RejNoLast EXCEPT !.op = "AUROC.compute", !.val = AUROC_compute(rj_au)]
    /\ UNCHANGED <<rj_ctor, rj_cfg, rj_acc, rj_acc_log, rj_au, rj_au_log, rj_rejected,
                   rc_vars, acc_vars, au_vars, ml_vars>>

vars == <<rc_vars, acc_vars, au_vars, ml_vars, rj_vars>>

Init == RecallInit /\ AccInit /\ AurocInit /\ MlInit /\ RejInit

\* The workers and their Accuracy instances.
Next ==
    \/ Construct
    \/ \E i \in Inst, b \in 1..Len(AccBatches) : Update(i, b)
    \/ \E i \in Inst : Compute(i)
    \/ \E i \in Inst : \E others \in Siblings[i] : MergeState(i, others)

Spec == Init /\ [][Next]_vars

\* The callers of multiclass_recall.
RecallNext ==
    \/ RecallCall
    \/ RecallParamCheck
    \/ RecallUpdate
    \/ RecallCompute
    \/ RecallExit

SpecRecall == Init /\ [][RecallNext]_vars

\* The workers and their AUROC instances.
AurocNext ==
    \/ \E i \in AurocInst, b \in 1..Len(AurocBatches) : AurocUpdate(i, b)
    \/ \E i \in AurocInst : AurocCompute(i)
    \/ \E i \in AurocInst : \E others \in Arrangements(AurocInst \ {i}) :
          AurocMergeState(i, others)

SpecAUROC == Init /\ [][AurocNext]_vars

\* The worker and its MultiLabelAccuracy instance.
MlNext ==
    \/ MlConstruct
    \/ \E b \in 1..Len(MlBatches) : MlUpdate(b)
    \/ MlCompute

SpecMultiLabel == Init /\ [][MlNext]_vars

\* The caller whose update calls are accepted or rejected.
RejNext ==
    \/ RejConstruct
    \/ \E b \in 1..Len(AccBatches) : RejAccuracyUpdate(b)
    \/ RejAccuracyCompute
    \/ \E b \in 1..Len(AurocBatches) : RejAurocUpdate(b)
    \/ RejAurocCompute

SpecReject == Init /\ [][RejNext]_vars

\* ------------------------------------------------ properties of the recall

ConfigErrors == {"ValueError:average", "ValueError:num_classes"}

\* _recall_update has run in the call in progress (it returned or raised).
RecallUpdated ==
    \/ rc_pc \in {"compute", "returned"}
    \/ rc_pc = "raised" /\ rc_out.err \notin ConfigErrors

\* _recall_compute has run in the call in progress (it returned or raised).
RecallComputed ==
    \/ rc_pc = "returned"
    \/ rc_pc = "raised" /\ rc_out.err = "RuntimeError"

ZeroCounts ==
    /\ SumInt(rc_counts.num_tp.data) = 0
    /\ SumInt(rc_counts.num_labels.data) = 0
    /\ SumInt(rc_counts.num_predictions.data) = 0

Zeros(n) == Vector([c \in 1..n |-> FromInt(0)])

NaNs(n) == Vector([c \in 1..n |-> NaN])

\* The result of a fresh Accuracy instance's compute is NaN: a scalar in the
\* modes micro and macro, a vector of num_classes NaNs in the mode None.
FreshAccuracyIsNaN ==
    \A cfg \in AccConfigs :
        LET r == Accuracy_init(cfg.average, cfg.num_classes)
        IN r.err = "ok" =>
             Accuracy_compute(r, cfg.average) =
                 IF cfg.average = "None" THEN NaNs(cfg.num_classes[1]) ELSE Scalar(NaN)

Kept == {c \in 1..Numel(rc_counts.num_labels) :
            rc_counts.num_labels.data[c] # 0 \/ rc_counts.num_predictions.data[c] # 0}

\* num_tp[c] / num_label[c], 0 for a class without label.
ClassRecall(c) ==
    IF rc_counts.num_labels.data[c] = 0 THEN FromInt(0)
    ELSE Ratio(rc_counts.num_tp.data[c], rc_counts.num_labels.data[c])

KeptLabels ==
    SumInt([c \in 1..Numel(rc_counts.num_labels) |->
               IF c \in Kept THEN rc_counts.num_labels.data[c] ELSE 0])

MacroRecall ==
    FDiv(SumF([c \in 1..Numel(rc_counts.num_labels) |->
                  IF c \in Kept THEN ClassRecall(c) ELSE FromInt(0)]),
         FromInt(Cardinality(Kept)))

WeightedRecall ==
    SumF([c \in 1..Numel(rc_counts.num_labels) |->
             IF c \in Kept
             THEN FMul(ClassRecall(c), Ratio(rc_counts.num_labels.data[c], KeptLabels))
             ELSE FromInt(0)])

\* C6, as claimed: in the modes macro and weighted compute does not fail and
\* returns the mean (macro) or the label-weighted sum (weighted) of the
\* per-class recalls over the classes that have a label or a prediction.
C6_MaskedClassesIgnored ==
    (RecallComputed /\ rc_args.average \in {"macro", "weighted"}) =>
        /\ rc_out.err = "ok"
        /\ rc_out.val = Scalar(IF rc_args.average = "macro"
                               THEN MacroRecall ELSE WeightedRecall)

\* C7, as claimed: a class without ground-truth instance never makes compute
\* raise nor return NaN, and in the mode None the result has num_classes
\* entries, 0 for such a class and num_tp[c] / num_label[c] for the others.
C7_ZeroLabelClassIsZero ==
    (RecallComputed /\ \E c \in 1..Numel(rc_counts.num_labels) :
                          rc_counts.num_labels.data[c] = 0) =>
        /\ rc_out.err = "ok"
        /\ \A k \in 1..Numel(rc_out.val) : ~IsNaN(rc_out.val.data[k])
        /\ rc_args.average = "None" =>
              rc_out.val = Vector([c \in 1..rc_args.num_classes[1] |-> ClassRecall(c)])

\* Whether a configuration is one the claim calls invalid.
InvalidConfig(average, num_classes) ==
    \/ average \notin {"micro", "macro", "weighted", "None"}
    \/ average # "micro" /\ (num_classes = None \/ num_classes[1] <= 0)

\* Accuracy.__init__ registers no state when its parameter check raises, and
\* both state tensors when it does not.
AccuracyChecksBeforeState ==
    \A cfg \in AccConfigs :
        LET r == Accuracy_init(cfg.average, cfg.num_classes)
        IN IF r.err = "ok"
           THEN r.num_correct # Absent /\ r.num_total # Absent
           ELSE r.num_correct = Absent /\ r.num_total = Absent

\* C8: the configuration error is raised exactly for an average outside
\* {micro, macro, weighted, None} or, when average is not micro, a missing or
\* non-positive num_classes; it is raised before any count exists and before
\* the input is inspected, whatever the shapes of input and target.
C8_ConfigValidation ==
    /\ AccuracyChecksBeforeState
    /\ rc_pc \notin {"idle", "param_check"} =>
          IF InvalidConfig(rc_args.average, rc_args.num_classes)
          THEN /\ rc_pc = "raised"
               /\ rc_out.err \in ConfigErrors
               /\ rc_counts = NoCounts
          ELSE rc_out.err \notin ConfigErrors

C8_Witness ==
    /\ rc_pc = "raised"
    /\ rc_out.err = "ValueError:num_classes"
    /\ rc_args.num_classes = Some(0)
    /\ rc_args.input.shape[1] # rc_args.target.shape[1]

\* The three shape rules of the claim.
FirstDimDiffers == rc_args.input.shape[1] # rc_args.target.shape[1]

TargetNot1D == Ndim(rc_args.target) # 1

InputShapeBad ==
    /\ Ndim(rc_args.input) # 1
    /\ \/ Ndim(rc_args.input) # 2
       \/ rc_args.num_classes # None /\ rc_args.input.shape[2] # rc_args.num_classes[1]

\* C9: the update raises a shape violation exactly when the first dimensions
\* differ (a), target is not 1-D (b), or input is neither 1-D nor 2-D of width
\* num_classes (any width without num_classes) (c); (a) is reported before (b)
\* before (c); and this holds in every call, the one after a rejected call
\* included.
C9_ShapeViolation ==
    RecallUpdated =>
        /\ rc_out.err \in ShapeErrors <=> (FirstDimDiffers \/ TargetNot1D \/ InputShapeBad)
        /\ FirstDimDiffers => rc_out.err = "ValueError:first_dimension"
        /\ (~FirstDimDiffers /\ TargetNot1D) => rc_out.err = "ValueError:target_ndim"
        /\ (~FirstDimDiffers /\ ~TargetNot1D /\ InputShapeBad) =>
               rc_out.err = "ValueError:input_shape"

C9_Witness ==
    /\ rc_prev
    /\ rc_pc = "raised"
    /\ rc_out.err = "ValueError:target_ndim"
    /\ InputShapeBad

\* --------------------------------------- properties of the Accuracy instances

StateOf(r) == [num_correct |-> r.num_correct, num_total |-> r.num_total]

\* The state of an instance constructed like the workers' and fed the batches
\* of `log` through update, one after the other.
RECURSIVE FoldUpdate(_, _)
FoldUpdate(self, log) ==
    IF log = <<>> THEN self
    ELSE FoldUpdate(StateOf(Accuracy_update(self, AccBatches[Head(log)].input,
                                            AccBatches[Head(log)].target,
                                            acc_cfg.average, acc_cfg.num_classes)),
                    Tail(log))

SingleInstance(log) ==
    FoldUpdate(StateOf(Accuracy_init(acc_cfg.average, acc_cfg.num_classes)), log)

\* The confusion-count states of the recall metric class: zero counts, the
\* counts of a batch added by update, the counts of the others added by
\* merge_state.
Counts_init(average, num_classes) ==
    IF average = "micro"
    THEN [num_tp |-> Scalar(0), num_labels |-> Scalar(0), num_predictions |-> Scalar(0)]
    ELSE [num_tp |-> ZeroTensor(<<num_classes[1]>>, num_classes[1]),
          num_labels |-> ZeroTensor(<<num_classes[1]>>, num_classes[1]),
          num_predictions |-> ZeroTensor(<<num_classes[1]>>, num_classes[1])]

CountsAdd(a, b) ==
    [num_tp |-> TAdd(a.num_tp, b.num_tp),
     num_labels |-> TAdd(a.num_labels, b.num_labels),
     num_predictions |-> TAdd(a.num_predictions, b.num_predictions)]

Counts_update(self, input, target, num_classes, average) ==
    CountsAdd(self, _recall_update(input, target, num_classes, average))

RECURSIVE Counts_merge_state(_, _)
Counts_merge_state(self, metrics) ==
    IF metrics = <<>> THEN self
    ELSE Counts_merge_state(CountsAdd(self, Head(metrics)), Tail(metrics))

CountBatches == <<
    [input |-> Vector(<<0, 1>>), target |-> Vector(<<0, 2>>)],
    [input |-> Vector(<<2>>), target |-> Vector(<<2>>)],
    [input |-> [shape |-> <<2, 3>>, data |-> <<0, 1, 0,  1, 0, 0>>],
     target |-> Vector(<<1, 1>>)] >>

\* Three instances with one batch each, folded left to right or right to left,
\* hold the counts of one instance that was fed the three batches.
ConfusionCountsMerge ==
    \A average \in {"micro", "macro", "weighted", "None"} :
        \A order \in {o \in Arrangements({1, 2, 3}) : Len(o) = 3} :
            LET zero   == Counts_init(average, Some(3))
                fed(k) == Counts_update(zero, CountBatches[k].input, CountBatches[k].target,
                                        Some(3), average)
                single == Counts_update(
                              Counts_update(fed(1), CountBatches[2].input,
                                            CountBatches[2].target, Some(3), average),
                              CountBatches[3].input, CountBatches[3].target, Some(3), average)
            IN /\ Counts_merge_state(fed(order[1]), <<fed(order[2]), fed(order[3])>>) = single
               /\ Counts_merge_state(fed(order[1]),
                      <<Counts_merge_state(fed(order[2]), <<fed(order[3])>>)>>) = single

\* C1: every instance, whatever merge_state calls brought the batches of its
\* siblings into it and in whatever order, has the state and the compute
\* result of one instance that received the same batches through update; the
\* same for the confusion counts.
C1_MergeEqualsSingleInstance ==
    /\ ConfusionCountsMerge
    /\ acc_ctor = "ok" =>
          \A i \in Inst : \A single \in {SingleInstance(acc_log[i])} :
              /\ acc_state[i] = single
              /\ Accuracy_compute(acc_state[i], acc_cfg.average) =
                     Accuracy_compute(single, acc_cfg.average)

C1_Witness ==
    /\ acc_last.op = "merge_state"
    /\ Len(acc_last.others) = 2
    /\ \A j \in Inst : acc_log[j] # <<>>
    /\ acc_log[acc_last.inst] = <<1, 2, 2>>
    /\ acc_cfg.average = "macro"

\* The field of instance i after merge_state(others), from the states before.
Summed(field, i, others) ==
    [shape |-> acc_state[i][field].shape,
     data |-> [k \in 1..Numel(acc_state[i][field]) |->
                  acc_state[i][field].data[k]
                  + SumInt([m \in 1..Len(others) |-> acc_state[others[m]][field].data[k]])]]

\* C2: a merge_state call leaves the state of every other instance as it was,
\* makes each state field of self the elementwise sum of self's and the
\* others' fields, and changes nothing when the iterable is empty.
C2_MergeFrame ==
    [][acc_last'.op = "merge_state" =>
          /\ \A j \in Inst \ {acc_last'.inst} : acc_state'[j] = acc_state[j]
          /\ acc_state'[acc_last'.inst] =
                 [num_correct |-> Summed("num_correct", acc_last'.inst, acc_last'.others),
                  num_total |-> Summed("num_total", acc_last'.inst, acc_last'.others)]
          /\ acc_last'.others = <<>> => acc_state' = acc_state]_vars

C2_Witness ==
    /\ acc_last.op = "merge_state"
    /\ Len(acc_last.others) = 1
    /\ acc_log[acc_last.others[1]] # <<>>
    /\ acc_log[acc_last.inst] # acc_log[acc_last.others[1]]
    /\ acc_cfg.average = "micro"

\* C3: a compute call changes no state field, and a compute right after a
\* compute of the same instance returns the same result.
C3_ComputeReadsOnly ==
    [][acc_last'.op = "compute" =>
          /\ acc_state' = acc_state
          /\ acc_last'.again => acc_last'.val = acc_last.val]_vars

C3_Witness ==
    /\ acc_last.op = "compute"
    /\ acc_last.again
    /\ Len(acc_log[acc_last.inst]) >= 2

\* The orders in which the batches of a log can be fed.
RECURSIVE PermsOf(_)
PermsOf(s) ==
    IF s = <<>> THEN {<<>>}
    ELSE UNION {{<<x>> \o t :
                    t \in PermsOf(LET k == CHOOSE k \in 1..Len(s) : s[k] = x
                                  IN SubSeq(s, 1, k - 1) \o SubSeq(s, k + 1, Len(s)))} :
                x \in {s[k] : k \in 1..Len(s)}}

\* C4: when the instances received their batches through update only, the
\* state and the compute result of each are those of an instance fed the same
\* batches in any other order.
C4_UpdateOrderIrrelevant ==
    (acc_ctor = "ok" /\ acc_fed = Accounted(acc_log)) =>
        \A i \in Inst : \A p \in PermsOf(acc_log[i]) : \A fed \in {SingleInstance(p)} :
            /\ fed = acc_state[i]
            /\ Accuracy_compute(fed, acc_cfg.average) =
                   Accuracy_compute(acc_state[i], acc_cfg.average)

C4_Witness ==
    /\ acc_fed = Accounted(acc_log)
    /\ acc_last.op = "update"
    /\ acc_last.batch = 1
    /\ acc_log[acc_last.inst] = <<1, 2, 2>>

\* The predicted label of each sample of a batch.
Predicted(b) == IF Ndim(b.input) = 2 THEN ArgMaxRows(b.input).data ELSE b.input.data

\* The samples of the batches of `log`: <<position in log, position in batch>>.
Samples(log) ==
    UNION {{<<k, n>> : n \in 1..Numel(AccBatches[log[k]].target)} : k \in 1..Len(log)}

PredictionOf(log, x) == Predicted(AccBatches[log[x[1]]])[x[2]]

TargetOf(log, x) == AccBatches[log[x[1]]].target.data[x[2]]

\* The accuracy of the samples of `log` as the class docstring defines it.
ReferenceAccuracy(log, average, num_classes) ==
    LET all      == Samples(log)
        seen(c)  == Cardinality({x \in all : TargetOf(log, x) = c})
        right(c) == Cardinality({x \in all : TargetOf(log, x) = c /\ PredictionOf(log, x) = c})
        ratio(c) == IF seen(c) = 0 THEN NaN ELSE Ratio(right(c), seen(c))
    IN IF average = "micro"
       THEN Scalar(IF all = {} THEN NaN
                   ELSE Ratio(Cardinality({x \in all : PredictionOf(log, x) = TargetOf(log, x)}),
                              Cardinality(all)))
       ELSE IF average = "None"
       THEN Vector([c \in 1..num_classes[1] |-> ratio(c - 1)])
       ELSE LET present == {c \in 0..(num_classes[1] - 1) : seen(c) > 0}
                s       == SumF([c \in 1..num_classes[1] |->
                                    IF c - 1 \in present THEN ratio(c - 1) ELSE FromInt(0)])
            IN Scalar(IF present = {} THEN NaN
                      ELSE FDiv(s, FromInt(Cardinality(present))))

\* The example of the docstring: input [0, 2, 1, 3], target [0, 1, 2, 3].
DocExample ==
    LET input  == Vector(<<0, 2, 1, 3>>)
        target == Vector(<<0, 1, 2, 3>>)
        micro  == Accuracy_update(Accuracy_init("micro", None), input, target, "micro", None)
        each   == Accuracy_update(Accuracy_init("None", Some(4)), input, target,
                                  "None", Some(4))
    IN /\ Accuracy_compute(micro, "micro") = Scalar(Ratio(1, 2))
       /\ Accuracy_compute(each, "None") =
              Vector(<<FromInt(1), FromInt(0), FromInt(0), FromInt(1)>>)

\* C10: after update calls only, compute of every instance equals the
\* reference accuracy of the samples it has seen: matches over samples
\* (micro), per class matches over samples of the class, NaN without sample
\* (None), the mean of these over the classes that have a sample (macro).
C10_ComputeIsReference ==
    /\ DocExample
    /\ (acc_ctor = "ok" /\ acc_fed = Accounted(acc_log)) =>
          \A i \in Inst :
              Accuracy_compute(acc_state[i], acc_cfg.average) =
                  ReferenceAccuracy(acc_log[i], acc_cfg.average, acc_cfg.num_classes)

C10_Witness ==
    /\ acc_fed = Accounted(acc_log)
    /\ acc_last.op = "compute"
    /\ acc_cfg.average = "macro"
    /\ acc_log[acc_last.inst] = <<1, 2>>
    /\ acc_last.val = Scalar(Ratio(21, 40))

\* ------------------------------------------ properties of the AUROC instances

\* The samples of the batches of `log`: <<position in log, position in batch>>.
AurocSamples(log) ==
    UNION {{<<k, n>> : n \in 1..Numel(AurocBatches[log[k]].target)} : k \in 1..Len(log)}

ScoreOf(log, x) == AurocBatches[log[x[1]]].input.data[x[2]]

LabelOf(log, x) == AurocBatches[log[x[1]]].target.data[x[2]]

Positives(log) == {x \in AurocSamples(log) : LabelOf(log, x) = 1}

Negatives(log) == {x \in AurocSamples(log) : LabelOf(log, x) = 0}

\* The Mann-Whitney statistic of the samples of `log`: the pairs of a positive
\* and a negative with the positive scored higher, plus half of those with
\* equal scores, over the number of pairs.
MannWhitney(log) ==
    LET pairs == Positives(log) \X Negatives(log)
        wins  == Cardinality({pq \in pairs : ScoreOf(log, pq[1]) > ScoreOf(log, pq[2])})
        ties  == Cardinality({pq \in pairs : ScoreOf(log, pq[1]) = ScoreOf(log, pq[2])})
    IN Scalar(Ratio(2 * wins + ties, 2 * Cardinality(pairs)))

\* How often the sample (score, label) is in the buffers of `self`, and in the
\* batches of `log`.
Buffered(self, score, label) ==
    Cardinality({k \in 1..Numel(Cat(self.inputs)) :
                    Cat(self.inputs).data[k] = score /\ Cat(self.targets).data[k] = label})

Logged(log, score, label) ==
    Cardinality({x \in AurocSamples(log) : ScoreOf(log, x) = score /\ LabelOf(log, x) = label})

\* C11: whatever updates and merges brought the batches into an instance, in
\* whatever order, its buffers hold every sample of these batches as often as
\* the batches do, and with a positive and a negative among them compute is
\* the Mann-Whitney statistic of these samples.
C11_AurocIsRankStatistic ==
    \A i \in AurocInst :
        /\ Numel(Cat(au_state[i].inputs)) = Numel(Cat(au_state[i].targets))
        /\ \A score \in 0..2, label \in 0..1 :
               Buffered(au_state[i], score, label) = Logged(au_log[i], score, label)
        /\ (Positives(au_log[i]) # {} /\ Negatives(au_log[i]) # {}) =>
               AUROC_compute(au_state[i]) = MannWhitney(au_log[i])

C11_Witness ==
    /\ au_last.op = "merge_state"
    /\ au_last.inst = "a1"
    /\ au_last.others = <<"a2", "a3">>
    /\ au_log["a2"] = <<2>>
    /\ au_log["a3"] = <<1>>
    /\ au_state["a1"].inputs = <<AurocBatches[2].input, AurocBatches[1].input>>
    /\ AUROC_compute(au_state["a1"]) = Scalar(Ratio(1, 2))

\* ------------------------------ properties of the MultiLabelAccuracy instance

\* The rows and the entries of the batches of `log`: <<position in log,
\* row>> and <<position in log, position in the flattened batch>>.
MlRows(log) ==
    UNION {{<<k, r>> : r \in 1..MlBatches[log[k]].target.shape[1]} : k \in 1..Len(log)}

MlEntries(log) ==
    UNION {{<<k, e>> : e \in 1..Numel(MlBatches[log[k]].target)} : k \in 1..Len(log)}

\* Whether entry x, thresholded (1 from the threshold on, else 0), is the
\* entry of target.
EntryMatches(log, x, threshold) ==
    (IF MlBatches[log[x[1]]].input.data[x[2]] >= threshold THEN 1 ELSE 0)
        = MlBatches[log[x[1]]].target.data[x[2]]

RowMatches(log, x, threshold) ==
    LET width == MlBatches[log[x[1]]].target.shape[2]
    IN \A c \in 1..width : EntryMatches(log, <<x[1], (x[2] - 1) * width + c>>, threshold)

\* Matching rows over rows (exact_match), matching entries over entries
\* (hamming).
ReferenceMultiLabel(log, threshold, criteria) ==
    IF criteria = "exact_match"
    THEN Ratio(Cardinality({x \in MlRows(log) : RowMatches(log, x, threshold)}),
               Cardinality(MlRows(log)))
    ELSE Ratio(Cardinality({x \in MlEntries(log) : EntryMatches(log, x, threshold)}),
               Cardinality(MlEntries(log)))

\* The example of the docstring, threshold 0.5: 0.5 for exact_match, 0.75 for
\* hamming.
MlDocExample ==
    /\ Accuracy_compute(
           MultiLabelAccuracy_update(MultiLabelAccuracy_init(5, "exact_match"),
                                     MlBatches[1].input, MlBatches[1].target,
                                     5, "exact_match"), "micro") = Scalar(Ratio(1, 2))
    /\ Accuracy_compute(
           MultiLabelAccuracy_update(MultiLabelAccuracy_init(5, "hamming"),
                                     MlBatches[1].input, MlBatches[1].target,
                                     5, "hamming"), "micro") = Scalar(Ratio(3, 4))

\* C12: after any sequence of updates, compute of the MultiLabelAccuracy
\* instance is matching rows over rows (exact_match) or matching entries over
\* entries (hamming) of the thresholded samples seen, 0.5 and 0.75 on the
\* example, and lies in [0, 1] once a sample was seen.
C12_MultiLabelIsReference ==
    /\ MlDocExample
    /\ ml_ctor = "ok" =>
          \A val \in {Accuracy_compute(ml_state, "micro")} :
              /\ val = Scalar(ReferenceMultiLabel(ml_log, ml_cfg.threshold, ml_cfg.criteria))
              /\ ml_log # <<>> => (val.data[1].d > 0 /\ val.data[1].n <= val.data[1].d)

C12_Witness ==
    /\ ml_last.op = "compute"
    /\ ml_cfg = [threshold |-> 5, criteria |-> "hamming"]
    /\ ml_log = <<1, 2>>
    /\ ml_last.val = Scalar(Ratio(3, 4))

\* ---------------------------------------------- properties of rejected updates

\* The state of an Accuracy instance of configuration cfg after the accepted
\* batches of `log` alone.
RECURSIVE AcceptedAccuracy(_, _, _)
AcceptedAccuracy(self, log, cfg) ==
    IF log = <<>> THEN self
    ELSE AcceptedAccuracy(StateOf(Accuracy_update(self, AccBatches[Head(log)].input,
                                                  AccBatches[Head(log)].target,
                                                  cfg.average, cfg.num_classes)),
                          Tail(log), cfg)

\* The state of an AUROC instance after the accepted batches of `log` alone.
RECURSIVE AcceptedAUROC(_, _)
AcceptedAUROC(self, log) ==
    IF log = <<>> THEN self
    ELSE AcceptedAUROC([inputs |-> Append(self.inputs, AurocBatches[Head(log)].input),
                        targets |-> Append(self.targets, AurocBatches[Head(log)].target)],
                       Tail(log))

\* The state and the compute of both instances are those of the accepted
\* batches alone.
AsIfNeverRejected ==
    /\ rj_au = AcceptedAUROC(AUROC_init, rj_au_log)
    /\ rj_au_log # <<>> =>
          AUROC_compute(rj_au) = AUROC_compute(AcceptedAUROC(AUROC_init, rj_au_log))
    /\ rj_ctor = "ok" =>
          \A alone \in {AcceptedAccuracy(StateOf(Accuracy_init(rj_cfg.average,
                                                               rj_cfg.num_classes)),
                                         rj_acc_log, rj_cfg)} :
              /\ rj_acc = alone
              /\ Accuracy_compute(rj_acc, rj_cfg.average)
                    = Accuracy_compute(alone, rj_cfg.average)

\* C13: an update that raises leaves every state field of the instance as it
\* was, for Accuracy.update and for AUROC.update however often they are
\* rejected, so the state and compute are those of the accepted updates alone.
C13_RejectedUpdateKeepsState ==
    /\ [][(rj_last'.op \in {"Accuracy.update", "AUROC.update"} /\ rj_last'.err # "ok") =>
              (rj_acc' = rj_acc /\ rj_au' = rj_au)]_vars
    /\ []AsIfNeverRejected

C13_Witness ==
    /\ rj_last.op = "AUROC.update" /\ rj_last.err # "ok"
    /\ rj_rejected.auroc >= 2
    /\ rj_rejected.accuracy >= 1
    /\ rj_acc_log # <<>>
    /\ rj_au_log # <<>>

\* ------------------------------------- the range of the Accuracy state fields

\* The shape the state tensors are constructed with: a scalar for micro,
\* one entry per class otherwise.
ConstructionShape(cfg) ==
    IF cfg.average = "micro" THEN <<>> ELSE <<cfg.num_classes[1]>>

\* NaN, or a value of [0, 1].
NaNOrUnit(x) == IsNaN(x) \/ (x.d > 0 /\ 0 <= x.n /\ x.n <= x.d)

\* C14: in every reachable state of the Accuracy instances, num_correct and
\* num_total keep the shape they were constructed with and
\* 0 <= num_correct <= num_total holds entry by entry, so that compute
\* returns NaN or values of [0, 1].
C14_CountsInRange ==
    acc_ctor = "ok" =>
        \A i \in Inst :
            /\ acc_state[i].num_correct.shape = ConstructionShape(acc_cfg)
            /\ acc_state[i].num_total.shape = ConstructionShape(acc_cfg)
            /\ \A k \in 1..Numel(acc_state[i].num_total) :
                  /\ 0 <= acc_state[i].num_correct.data[k]
                  /\ acc_state[i].num_correct.data[k] <= acc_state[i].num_total.data[k]
            /\ \A val \in {Accuracy_compute(acc_state[i], acc_cfg.average)} :
                  \A k \in 1..Numel(val) : NaNOrUnit(val.data[k])

C14_Witness ==
    /\ acc_last.op = "merge_state" /\ acc_last.inst = "w1"
    /\ acc_cfg = [average |-> "None", num_classes |-> Some(4)]
    /\ Len(acc_log["w1"]) >= 3
    /\ \E k \in 1..4 :
          /\ 0 < acc_state["w1"].num_correct.data[k]
          /\ acc_state["w1"].num_correct.data[k] < acc_state["w1"].num_total.data[k]
    /\ \E k \in 1..4 : IsNaN(Accuracy_compute(acc_state["w1"], "None").data[k])

====
